---- MODULE Spec2Model ----
(***************************************************************************)
(* PostgreSQL -> Elasticsearch incremental sync (sync_manager.py, main.py). *)
(*                                                                         *)
(* Spec     : the outer loop of main() driving sync_table over the         *)
(*            configured tables, with the source tables, the sync_status   *)
(*            table, the index and the wall clock as environment.          *)
(* PlanSpec : calculate_batch_size applied to bounded inputs.              *)
(***************************************************************************)
EXTENDS Integers, Sequences, FiniteSets

(* ------------------------------ bounds --------------------------------- *)
\* rows the source tables can hold in total in the sync model
MaxRows == 2
\* timestamps range over 1..MaxTime, wall-clock readings over 0..MaxTime
MaxTime == 2
\* min_batch_size <= max_batch_size <= MaxSyncBatch in the sync model
MaxSyncBatch == 2
\* planner inputs: min_batch_size in 1..MaxPlanMin
MaxPlanMin == 2
\* planner inputs: max_batch_size in min..MaxPlanMax
MaxPlanMax == 3
\* planner inputs: rows per timestamp value in the planner's table
MaxPlanCount == 5
\* limiter: the limiter's clock runs from 0 to MaxRateClock seconds
MaxRateClock == 120
\* limiter: actions per sync_batch call in 1..MaxRateBatch, or the default
\* max_batch_size
MaxRateBatch == 2
\* delivery: a batch is sent to the index service up to MaxDeliveries times
MaxDeliveries == 2
\* mapping: create_es_mapping is called up to MaxMapCalls times on a schema
MaxMapCalls == 2
\* read-side API: fields and exclude_fields name up to MaxApiFields fields
MaxApiFields == 2

(* ----------------------------- constants ------------------------------- *)
\* '1970-01-01'::timestamp, the COALESCE default of both queries
Epoch == 0
\* stop_after_attempt(3) of setup_connections
SetupAttempts == 3
\* sync_config.get('min_batch_size', 100), sync_config.get('max_batch_size', 5000)
DefaultMinBatch == 100
DefaultMaxBatch == 5000
\* @limits(calls=1000, period=60) of sync_batch
RateCalls == 1000
RatePeriod == 60
\* 'ignore_above': 256 of the keyword sub-field
IgnoreAbove == 256
\* status codes of the read-side API: status_code=400 of the validation,
\* status_code=500 of the except clauses, and a response that is returned
BadRequest == 400
ServerError == 500
StatusOk == 200
RaiseOnErrorDefault == TRUE
\* raise_on_error=False of the bulk call
RaiseOnError == FALSE
\* raise_on_exception=False of the bulk call
RaiseOnException == FALSE

\* sync_config['tables'], in configuration order
TableOrder == <<"A", "B">>
Tables == {TableOrder[i] : i \in 1..Len(TableOrder)}
Timestamps == 1..MaxTime
Row == [id : 1..(MaxRows + 1), ts : Timestamps]
\* a sync_status record: <<>> when the table has no row in sync_status
NoRecord == <<>>

VARIABLES
  cfg,           \* sync_config: <<min_batch_size, max_batch_size>>
  catalog,       \* tables that exist in the source database
  borrowed,      \* pool connections handed out by getconn and not put back
  connsOpen,     \* the pool and the index client of the syncer are open
  source,        \* source[t]: rows of table t
  syncStatus,    \* sync_status: per table NoRecord or <<last_sync_time>>
  indexExists,   \* tables whose index exists
  pc,            \* position of main() / sync_table
  cur,           \* position in TableOrder of the table being synced
  attempts,      \* failed attempts of setup_connections in this construction
  remaining,     \* remaining_records of the last calculate_batch_size
  batchSize,     \* batch_size of sync_table
  cursorOpen,    \* the named cursor was executed in this sync_table call
  cursorValid,   \* the named cursor survives (no commit since DECLARE)
  cursorRows,    \* rows of the scan not fetched yet, in scan order
  scanWm,        \* the watermark the scan's WHERE clause read
  batches,       \* batches fetched by this sync_table call, in order
  bulkOutcome,   \* what the last bulk call met in the index service
  lastResult,    \* (success, failed) returned by the last sync_batch
  lastError,     \* the step whose exception ended the cycle, or "none"
  fetchedMax,    \* fetchedMax[t]: highest timestamp ever fetched for t
  writtenMax,    \* writtenMax[t]: highest timestamp ever sent in a bulk call
  invoked,       \* tables whose sync_table was called in this cycle
  failedTables,  \* tables whose sync_table raised in this cycle
  pIn,           \* planner input: [min, max, table, wm]
  pOut,          \* planner results so far: sequence of [remaining, size]
  rlClock,       \* limiter: time.monotonic(), in seconds
  rlLastReset,   \* limiter: last_reset, the start of the current period
  rlNumCalls,    \* limiter: num_calls counted in the current period
  rlBatch,       \* limiter: number of actions of each sync_batch call
  rlDocs,        \* limiter: documents submitted since last_reset
  bRows,         \* delivery: the rows of the fetched batch
  bIndex,        \* delivery: the documents held by the index service
  bLog,          \* delivery: the index content after each delivery
  mSchema,       \* mapping: the schema given to create_es_mapping
  mOut,          \* mapping: the results of the calls of create_es_mapping
  aReq,          \* API: the request: [endpoint, fields, exclude_fields]
  aResp,         \* API: the response: [status, detail], status 0 if none yet
  aSearches      \* API: searches sent to the index service for the request

syncVars == <<cfg, catalog, borrowed, connsOpen, source, syncStatus, indexExists, pc, cur,
              attempts, remaining, batchSize, cursorOpen, cursorValid,
              cursorRows, scanWm, batches, bulkOutcome, lastResult,
                 lastError,
              fetchedMax, writtenMax, invoked, failedTables>>
planVars == <<pIn, pOut>>
rateVars == <<rlClock, rlLastReset, rlNumCalls, rlBatch, rlDocs>>
bulkVars == <<bRows, bIndex, bLog>>
mapVars == <<mSchema, mOut>>
apiVars == <<aReq, aResp, aSearches>>
auxVars == <<planVars, rateVars, bulkVars, mapVars, apiVars>>
vars == <<syncVars, auxVars>>

(* ------------------------------ helpers -------------------------------- *)
Min2(a, b) == IF a <= b THEN a ELSE b

RECURSIVE Pow(_, _)
Pow(b, e) == IF e = 0 THEN 1 ELSE b * Pow(b, e - 1)

RECURSIVE SumTo(_, _)
\* sum of f[k] for k in 1..n
SumTo(f, n) == IF n = 0 THEN 0 ELSE f[n] + SumTo(f, n - 1)

MaxOf(S) == CHOOSE m \in S : \A x \in S : x <= m

TsOf(rows) == {r.ts : r \in rows}

Range(s) == {s[i] : i \in DOMAIN s}

\* rows per timestamp value
TsCount(rows) == [k \in Timestamps |-> Cardinality({r \in rows : r.ts = k})]

(* ------------------- calculate_batch_size (planner) -------------------- *)
\* COALESCE((SELECT last_sync_time ...), '1970-01-01'::timestamp)
Coalesce(rec) == IF rec = NoRecord THEN Epoch ELSE rec[1]

RemainingRecordsGe(tsCount, rec) ==
  SumTo([k \in DOMAIN tsCount |->
           IF k >= Coalesce(rec) THEN tsCount[k] ELSE 0], Len(tsCount))

\* SELECT COUNT(*) FROM table WHERE timestamp_column > COALESCE(...)
\* tsCount[k] is the number of rows of the table whose timestamp is k
RemainingRecords(tsCount, rec) ==
  SumTo([k \in DOMAIN tsCount |->
           IF k > Coalesce(rec) THEN tsCount[k] ELSE 0], Len(tsCount))

RECURSIVE FloorLog10(_)
\* floor(log10(x)) for an integer x >= 1: its number of digits less one
FloorLog10(x) == IF x < 10 THEN 0 ELSE 1 + FloorLog10(x \div 10)

IsPow10(x) == \E j \in 0..9 : x = Pow(10, j)

\* int(min_size * math.log10(remaining_records)) for remaining_records >= 1:
\* the largest k with 10^k <= r^m.  log10 of a power of ten is exact, so the
\* product is m * log10(r) there (and r^m need not be formed).
FloorMulLog10(m, r) ==
  IF IsPow10(r) THEN m * FloorLog10(r) ELSE FloorLog10(Pow(r, m))

BatchPolicySwapped(remaining_records, min_size, max_size) ==
  IF remaining_records <= min_size THEN max_size
  ELSE IF remaining_records <= max_size THEN remaining_records
  ELSE Min2(max_size, FloorMulLog10(min_size, remaining_records))

\* the if / elif / else of calculate_batch_size
BatchPolicy(remaining_records, min_size, max_size) ==
  IF remaining_records <= min_size THEN min_size
  ELSE IF remaining_records <= max_size THEN remaining_records
  ELSE Min2(max_size, FloorMulLog10(min_size, remaining_records))

\* calculate_batch_size: the count query, then the policy
CalculateBatchSize(tsCount, rec, min_size, max_size) ==
  LET remaining_records == RemainingRecords(tsCount, rec)
  IN  [remaining |-> remaining_records,
       size |-> BatchPolicy(remaining_records, min_size, max_size)]

(* --------------------------- the sync model ---------------------------- *)
SyncConfigs ==
  {c \in (1..MaxSyncBatch) \X (1..MaxSyncBatch) : c[1] <= c[2]}

NoResult == [success |-> 0, failed |-> {}]

\* the sync model before the first cycle: empty source tables, no
\* sync_status record, no index
SyncStart ==
  /\ borrowed = 0
  /\ connsOpen = FALSE
  /\ source = [t \in Tables |-> {}]
  /\ syncStatus = [t \in Tables |-> NoRecord]
  /\ indexExists = {}
  /\ pc = "setup"
  /\ cur = 1
  /\ attempts = 0
  /\ remaining = 0
  /\ batchSize = 0
  /\ cursorOpen = FALSE
  /\ cursorValid = FALSE
  /\ cursorRows = <<>>
  /\ scanWm = Epoch
  /\ batches = <<>>
  /\ bulkOutcome = "none"
  /\ lastResult = NoResult
  /\ lastError = "none"
  /\ fetchedMax = [t \in Tables |-> Epoch]
  /\ writtenMax = [t \in Tables |-> Epoch]
  /\ invoked = {}
  /\ failedTables = {}

\* the tables that exist: every configured table, or all but some of them
Catalogs == SUBSET Tables

SyncInit == cfg \in SyncConfigs /\ catalog \in Catalogs /\ SyncStart

\* table_config of the sync_table call in progress
CurTable == TableOrder[cur]

\* the locals of sync_table, dropped when the call ends
ResetLocals ==
  /\ remaining' = 0
  /\ batchSize' = 0
  /\ cursorOpen' = FALSE
  /\ cursorValid' = FALSE
  /\ cursorRows' = <<>>
  /\ scanWm' = Epoch
  /\ batches' = <<>>
  /\ lastResult' = NoResult

PutConnSkipped(n) == n

\* self.pool.putconn(conn) in a finally block: of n connections handed out,
\* one goes back to the pool
PutConn(n) == n - 1

\* An exception leaves sync_table: the finally returns the connection, the
\* except logs and re-raises; main's for loop is left, the with block closes
\* the connections, except Exception logs and main sleeps 5 seconds.
Raise(step) ==
  /\ failedTables' = failedTables \cup {CurTable}
  /\ lastError' = step
  /\ pc' = "cooldown"
  /\ borrowed' = (IF cursorOpen THEN PutConn(borrowed) ELSE borrowed)
  /\ connsOpen' = FALSE
  /\ ResetLocals
  /\ UNCHANGED <<cfg, catalog, source, indexExists, cur, attempts, fetchedMax,
                 invoked>>

\* sync_table returns: main's for loop takes the next table, or the with
\* block ends and main sleeps sync_interval.
Return ==
  /\ IF cur < Len(TableOrder)
       THEN /\ cur' = cur + 1
            /\ pc' = "schema"
            /\ invoked' = invoked \cup {TableOrder[cur + 1]}
       ELSE /\ cur' = cur
            /\ pc' = "sleep"
            /\ invoked' = invoked
  /\ borrowed' = PutConn(borrowed)
  /\ connsOpen' = (cur < Len(TableOrder))
  /\ ResetLocals
  /\ bulkOutcome' = "none"
  /\ UNCHANGED <<cfg, catalog, source, indexExists, attempts, lastError,
                 fetchedMax, failedTables>>

(* environment, observed until main returns: rows are inserted into the     *)
(* source tables                                                           *)
TotalRows == SumTo([i \in 1..Len(TableOrder) |->
                      Cardinality(source[TableOrder[i]])], Len(TableOrder))

InsertRow ==
  /\ pc # "stopped"
  /\ TotalRows < MaxRows
  /\ \E t \in catalog, k \in Timestamps :
       source' = [source EXCEPT ![t] =
                    @ \cup {[id |-> Cardinality(source[t]) + 1, ts |-> k]}]
  /\ UNCHANGED <<cfg, catalog, borrowed, connsOpen, syncStatus, indexExists, pc, cur,
                 attempts, remaining, batchSize, cursorOpen, cursorValid,
                 cursorRows, scanWm, batches, bulkOutcome, lastResult,
                 lastError,
                 fetchedMax, writtenMax, invoked, failedTables, auxVars>>

InterruptLandsInLoop == "cooldown"

\* KeyboardInterrupt is not an Exception: the except Exception clauses of
\* sync_table and of main's loop let it pass, except KeyboardInterrupt of
\* main takes it and main returns
InterruptLands == "stopped"

\* KeyboardInterrupt arrives at any point of main: the finally of sync_table
\* puts the connection back (an upsert not yet committed is rolled back),
\* the with block closes the connections, main logs and returns and its
\* locals are gone.  A bulk request in flight has reached the index service
\* or not.
Interrupt ==
  /\ pc # "stopped"
  /\ pc' = InterruptLands
  /\ lastError' = "interrupt"
  /\ borrowed' = (IF cursorOpen THEN PutConn(borrowed) ELSE borrowed)
  /\ connsOpen' = FALSE
  /\ attempts' = 0
  /\ cur' = 1
  /\ invoked' = {}
  /\ failedTables' = {}
  /\ \E sent \in BOOLEAN :
       writtenMax' = IF pc = "write" /\ sent
                       THEN [writtenMax EXCEPT ![CurTable] =
                               MaxOf({@} \cup TsOf(Range(batches[Len(batches)])))]
                       ELSE writtenMax
  /\ ResetLocals
  /\ bulkOutcome' = "none"
  /\ UNCHANGED <<cfg, catalog, source, syncStatus, indexExists,
                 fetchedMax, auxVars>>

(* main: PostgresElasticsearchSync(...) -> setup_connections under @retry *)
SetupOk ==
  /\ pc = "setup"
  /\ pc' = "schema"
  /\ cur' = 1
  /\ attempts' = 0
  /\ invoked' = {TableOrder[1]}
  /\ connsOpen' = TRUE
  /\ UNCHANGED <<cfg, catalog, borrowed, source, syncStatus, indexExists,
                 remaining, batchSize, cursorOpen, cursorValid, cursorRows,
                 scanWm, batches, bulkOutcome, lastResult, lastError,
                 fetchedMax, writtenMax, failedTables, auxVars>>

SetupFails ==
  /\ pc = "setup"
  /\ IF attempts + 1 < SetupAttempts
       THEN attempts' = attempts + 1 /\ pc' = pc /\ lastError' = lastError
       ELSE attempts' = 0 /\ pc' = "cooldown" /\ lastError' = "setup"
  /\ UNCHANGED <<cfg, catalog, borrowed, connsOpen, source, syncStatus, indexExists, cur,
                 remaining, batchSize, cursorOpen, cursorValid, cursorRows,
                 scanWm, batches, bulkOutcome, lastResult, fetchedMax,
                 writtenMax, invoked, failedTables, auxVars>>

\* time.sleep(sync_config['sync_interval']) ends: the while loop goes round
SleepDone ==
  /\ pc = "sleep"
  /\ pc' = "setup"
  /\ invoked' = {}
  /\ failedTables' = {}
  /\ UNCHANGED <<cfg, catalog, borrowed, connsOpen, source, syncStatus, indexExists, cur,
                 attempts, remaining, batchSize, cursorOpen, cursorValid,
                 cursorRows, scanWm, batches, bulkOutcome, lastResult,
                 lastError,
                 fetchedMax, writtenMax, auxVars>>

CooldownExits == "stopped"

\* after the except Exception clause the while True loop goes round
CooldownNext == "setup"

\* time.sleep(5) ends: the while loop goes round
CooldownDone ==
  /\ pc = "cooldown"
  /\ pc' = CooldownNext
  /\ invoked' = {}
  /\ failedTables' = {}
  /\ lastError' = "none"
  /\ bulkOutcome' = "none"
  /\ UNCHANGED <<cfg, catalog, borrowed, connsOpen, source, syncStatus, indexExists, cur,
                 attempts, remaining, batchSize, cursorOpen, cursorValid,
                 cursorRows, scanWm, batches, lastResult, fetchedMax,
                 writtenMax, auxVars>>

(* ------------------------------ sync_table ----------------------------- *)
GetSchemaSkipsIndex ==
  /\ pc = "schema"
  /\ borrowed' = PutConn(borrowed + 1)
  /\ pc' = "plan"
  /\ UNCHANGED <<cfg, catalog, connsOpen, source, syncStatus,
                 indexExists, cur,
                 attempts, remaining, batchSize, cursorOpen, cursorValid,
                 cursorRows, scanWm, batches, bulkOutcome, lastResult,
                 lastError,
                 fetchedMax, writtenMax, invoked, failedTables, auxVars>>

\* get_table_schema(table_name) returns: getconn, the catalog query (which
\* finds no column, and does not fail, for a table that does not exist),
\* putconn in the finally
GetSchema ==
  /\ pc = "schema"
  /\ borrowed' = PutConn(borrowed + 1)
  /\ pc' = "index"
  /\ UNCHANGED <<cfg, catalog, connsOpen, source, syncStatus, indexExists, cur,
                 attempts, remaining, batchSize, cursorOpen, cursorValid,
                 cursorRows, scanWm, batches, bulkOutcome, lastResult,
                 lastError,
                 fetchedMax, writtenMax, invoked, failedTables, auxVars>>

\* get_table_schema raises (getconn or the catalog query fails)
GetSchemaFails ==
  /\ pc = "schema"
  /\ Raise("schema")
  /\ bulkOutcome' = "none"
  /\ UNCHANGED <<syncStatus, writtenMax, auxVars>>

\* indices.exists, then indices.create or indices.put_mapping
EnsureIndex ==
  /\ pc = "index"
  /\ indexExists' = indexExists \cup {CurTable}
  /\ pc' = "plan"
  /\ UNCHANGED <<cfg, catalog, borrowed, connsOpen, source, syncStatus, cur, attempts,
                 remaining, batchSize, cursorOpen, cursorValid, cursorRows,
                 scanWm, batches, bulkOutcome, lastResult, lastError,
                 fetchedMax, writtenMax, invoked, failedTables, auxVars>>

EnsureIndexFails ==
  /\ pc = "index"
  /\ Raise("index")
  /\ bulkOutcome' = "none"
  /\ UNCHANGED <<syncStatus, writtenMax, auxVars>>

\* batch_size = self.calculate_batch_size(table_name, timestamp_column):
\* getconn, the count query on the table (an error if the table does not
\* exist: PlanFails), the policy, putconn in the finally
Plan ==
  /\ pc = "plan"
  /\ CurTable \in catalog
  /\ borrowed' = PutConn(borrowed + 1)
  /\ LET r == CalculateBatchSize(TsCount(source[CurTable]),
                                 syncStatus[CurTable], cfg[1], cfg[2])
     IN  /\ remaining' = r.remaining
         /\ batchSize' = r.size
  /\ pc' = "open"
  /\ UNCHANGED <<cfg, catalog, connsOpen, source, syncStatus, indexExists, cur,
                 attempts, cursorOpen, cursorValid, cursorRows, scanWm,
                 batches, bulkOutcome, lastResult, lastError, fetchedMax,
                 writtenMax, invoked, failedTables, auxVars>>

PlanFails ==
  /\ pc = "plan"
  /\ Raise("plan")
  /\ bulkOutcome' = "none"
  /\ UNCHANGED <<syncStatus, writtenMax, auxVars>>

\* WHERE timestamp_column > COALESCE(last_sync_time, epoch)
ScanFilter(rows, rec) == {r \in rows : r.ts > Coalesce(rec)}

ScanOrdersAny(rows) ==
  {s \in [1..Cardinality(rows) -> rows] :
     \A i, j \in DOMAIN s : i < j => s[i] # s[j]}

\* ORDER BY timestamp_column: every order of the rows that ascends in the
\* timestamp (rows of equal timestamp come in any order)
ScanOrders(rows) ==
  {s \in [1..Cardinality(rows) -> rows] :
     /\ \A i, j \in DOMAIN s : i < j => s[i] # s[j] /\ s[i].ts <= s[j].ts}

\* pool.getconn(), conn.cursor(name=...), cursor.execute(SELECT ...)
OpenScan ==
  /\ pc = "open"
  /\ \E s \in ScanOrders(ScanFilter(source[CurTable], syncStatus[CurTable])) :
       cursorRows' = s
  /\ borrowed' = borrowed + 1
  /\ cursorOpen' = TRUE
  /\ cursorValid' = TRUE
  /\ scanWm' = Coalesce(syncStatus[CurTable])
  /\ pc' = "fetch"
  /\ UNCHANGED <<cfg, catalog, connsOpen, source, syncStatus, indexExists, cur,
                 attempts, remaining, batchSize, batches, bulkOutcome,
                 lastResult, lastError, fetchedMax, writtenMax, invoked,
                 failedTables, auxVars>>

OpenScanFailsAfterUpsert ==
  /\ pc = "open"
  /\ Raise("open")
  /\ bulkOutcome' = "none"
  /\ syncStatus' = [syncStatus EXCEPT ![CurTable] = <<Epoch>>]
  /\ UNCHANGED <<writtenMax, auxVars>>

\* getconn, conn.cursor(name=...) or cursor.execute raises
OpenScanFails ==
  /\ pc = "open"
  /\ Raise("open")
  /\ bulkOutcome' = "none"
  /\ UNCHANGED <<syncStatus, writtenMax, auxVars>>

\* the first n elements of s, and the rest
Take(s, n) == SubSeq(s, 1, Min2(n, Len(s)))
Drop(s, n) == SubSeq(s, Min2(n, Len(s)) + 1, Len(s))

\* rows = cursor.fetchmany(batch_size) returns rows: the actions are built
Fetch ==
  /\ pc = "fetch"
  /\ cursorValid
  /\ Take(cursorRows, batchSize) # <<>>
  /\ batches' = Append(batches, Take(cursorRows, batchSize))
  /\ cursorRows' = Drop(cursorRows, batchSize)
  /\ fetchedMax' = [fetchedMax EXCEPT ![CurTable] =
                      MaxOf({@} \cup TsOf(Range(Take(cursorRows, batchSize))))]
  /\ bulkOutcome' = "none"
  /\ lastResult' = NoResult
  /\ pc' = "write"
  /\ UNCHANGED <<cfg, catalog, borrowed, connsOpen, source, syncStatus, indexExists, cur,
                 attempts, remaining, batchSize, cursorOpen, cursorValid,
                 scanWm, lastError, writtenMax, invoked, failedTables,
                 auxVars>>

\* fetchmany returns no rows: break, the cursor closes, sync_table returns
FetchEmpty ==
  /\ pc = "fetch"
  /\ cursorValid
  /\ Take(cursorRows, batchSize) = <<>>
  /\ Return
  /\ UNCHANGED <<syncStatus, writtenMax, auxVars>>

\* fetchmany on the named cursor after conn.commit(): the cursor was declared
\* WITHOUT HOLD and ended with its transaction; psycopg2 raises
\* ProgrammingError
FetchAfterCommit ==
  /\ pc = "fetch"
  /\ ~cursorValid
  /\ Raise("cursor")
  /\ bulkOutcome' = "none"
  /\ UNCHANGED <<syncStatus, writtenMax, auxVars>>

\* fetchmany raises for another reason (connection lost, query error)
FetchFails ==
  /\ pc = "fetch"
  /\ cursorValid
  /\ Raise("fetch")
  /\ bulkOutcome' = "none"
  /\ UNCHANGED <<syncStatus, writtenMax, auxVars>>

\* the batch being processed: the rows of the last fetchmany
CurBatch == Range(batches[Len(batches)])

\* sync_batch(actions): the bulk request is answered; the index service
\* stores the accepted documents and rejects the others, and bulk returns
\* (success, failed) unless raise_on_error makes it raise
BulkAnswered ==
  /\ pc = "write"
  /\ \E rejected \in SUBSET CurBatch :
       /\ writtenMax' = [writtenMax EXCEPT ![CurTable] =
                           MaxOf({@} \cup TsOf(CurBatch))]
       /\ bulkOutcome' = IF rejected = {} THEN "ok" ELSE "rejected"
       /\ IF RaiseOnError /\ rejected # {}
            THEN Raise("bulk_index_error")
            ELSE /\ lastResult' =
                      [success |-> Cardinality(CurBatch \ rejected),
                       failed |-> rejected]
                 /\ pc' = "advance"
                 /\ UNCHANGED <<cfg, catalog, borrowed, connsOpen, source, indexExists, cur,
                                attempts, remaining, batchSize, cursorOpen,
                                cursorValid, cursorRows, scanWm, batches,
                                lastError, fetchedMax, invoked,
                                failedTables>>
  /\ UNCHANGED <<syncStatus, auxVars>>

\* the bulk request as a whole fails with an API error (the service answers
\* 429, 503, ...): with raise_on_exception=False bulk does not raise and
\* reports every document of the chunk as failed
BulkCallFails ==
  /\ pc = "write"
  /\ writtenMax' = [writtenMax EXCEPT ![CurTable] =
                      MaxOf({@} \cup TsOf(CurBatch))]
  /\ bulkOutcome' = "call_failed"
  /\ IF RaiseOnException
       THEN Raise("bulk")
       ELSE /\ lastResult' = [success |-> 0, failed |-> CurBatch]
            /\ pc' = "advance"
            /\ UNCHANGED <<cfg, catalog, borrowed, connsOpen, source, indexExists, cur, attempts,
                           remaining, batchSize, cursorOpen, cursorValid,
                           cursorRows, scanWm, batches, lastError,
                           fetchedMax, invoked, failedTables>>
  /\ UNCHANGED <<syncStatus, auxVars>>

\* the bulk call raises an exception raise_on_exception does not cover
\* (the service is unreachable, a document cannot be serialized)
BulkRaises ==
  /\ pc = "write"
  /\ Raise("bulk")
  /\ bulkOutcome' = "unreachable"
  /\ UNCHANGED <<syncStatus, writtenMax, auxVars>>

\* conn.cursor(name=...) declares the cursor WITHOUT HOLD (withhold=False)
CursorWithHold == FALSE

\* datetime.now() is the local wall clock, not a monotonic one: it is set
\* back at the end of daylight saving time or by a correction of the system
\* time, so a reading is any time from the epoch on, whatever was read before
ClockReadings == Epoch..MaxTime

\* the value the upsert stores as last_sync_time: datetime.now(), whatever
\* the rows of the batch hold
UpsertValue(now, rows) == now

\* INSERT INTO sync_status ... ON CONFLICT DO UPDATE, conn.commit()
AdvanceWatermark ==
  /\ pc = "advance"
  /\ \E now \in ClockReadings :
       syncStatus' = [syncStatus EXCEPT ![CurTable] =
                        <<UpsertValue(now, CurBatch)>>]
  /\ cursorValid' = (cursorValid /\ CursorWithHold)
  /\ pc' = "fetch"
  /\ UNCHANGED <<cfg, catalog, borrowed, connsOpen, source, indexExists, cur, attempts,
                 remaining, batchSize, cursorOpen, cursorRows, scanWm,
                 batches, bulkOutcome, lastResult, lastError, fetchedMax,
                 writtenMax, invoked, failedTables, auxVars>>

\* the upsert or the commit raises
AdvanceFails ==
  /\ pc = "advance"
  /\ Raise("upsert")
  /\ bulkOutcome' = "none"
  /\ UNCHANGED <<syncStatus, writtenMax, auxVars>>

\* the planner, the limiter, the delivery and the mapping at rest
PlanIdle ==
  /\ pIn = [min |-> 1, max |-> 1, table |-> <<0>>, wm |-> NoRecord]
  /\ pOut = <<>>

RateIdle ==
  /\ rlClock = 0
  /\ rlLastReset = 0
  /\ rlNumCalls = 0
  /\ rlBatch = 1
  /\ rlDocs = 0

BulkIdle ==
  /\ bRows = <<>>
  /\ bIndex = {}
  /\ bLog = <<>>

MapIdle ==
  /\ mSchema = <<>>
  /\ mOut = <<>>

\* no response sent yet
NoResponse == [status |-> 0, detail |-> <<>>]

ApiIdle ==
  /\ aReq = <<>>
  /\ aResp = NoResponse
  /\ aSearches = 0

Init ==
  /\ SyncInit
  /\ PlanIdle
  /\ RateIdle
  /\ BulkIdle
  /\ MapIdle
  /\ ApiIdle

Next ==
  \/ InsertRow
  \/ Interrupt
  \/ SetupOk
  \/ SetupFails
  \/ SleepDone
  \/ CooldownDone
  \/ GetSchema
  \/ GetSchemaFails
  \/ EnsureIndex
  \/ EnsureIndexFails
  \/ Plan
  \/ PlanFails
  \/ OpenScan
  \/ OpenScanFails
  \/ Fetch
  \/ FetchEmpty
  \/ FetchAfterCommit
  \/ FetchFails
  \/ BulkAnswered
  \/ BulkCallFails
  \/ BulkRaises
  \/ AdvanceWatermark
  \/ AdvanceFails

Spec == Init /\ [][Next]_vars

\* the same program, with time.sleep(5) of the except clause returning
LiveSpec == Init /\ [][Next]_vars /\ WF_vars(CooldownDone)

(* ------------------- the planner on bounded inputs --------------------- *)
PlanTables == [Timestamps -> 0..MaxPlanCount]

\* the backlogs of the two planner scenarios of the specification, under the
\* default configuration and with no sync_status record
ScenarioInputs ==
  {[min |-> DefaultMinBatch, max |-> DefaultMaxBatch,
    table |-> [k \in Timestamps |-> IF k = 1 THEN n ELSE 0],
    wm |-> NoRecord] : n \in {50, 1000000}}

PlanInputs ==
  {[min |-> c[1], max |-> c[2], table |-> tb, wm |-> w] :
     c \in {d \in (1..MaxPlanMin) \X (1..MaxPlanMax) : d[1] <= d[2]},
     tb \in PlanTables,
     w \in {NoRecord} \cup {<<k>> : k \in Timestamps}}
  \cup ScenarioInputs

PlanInit ==
  /\ cfg = <<1, 1>>
  /\ catalog = Tables
  /\ SyncStart
  /\ pIn \in PlanInputs
  /\ pOut = <<>>
  /\ RateIdle
  /\ BulkIdle
  /\ MapIdle
  /\ ApiIdle

\* calculate_batch_size is called on the planner's table
PlanCall ==
  /\ Len(pOut) < 2
  /\ LET r == CalculateBatchSize(pIn.table, pIn.wm, pIn.min, pIn.max)
     IN  pOut' = Append(pOut, [table |-> pIn.table,
                               remaining |-> r.remaining, size |-> r.size])
  /\ UNCHANGED <<pIn, syncVars, apiVars, rateVars, bulkVars, mapVars>>

\* rows are inserted into the planner's table between two calls
PlanInsert ==
  /\ Len(pOut) = 1
  /\ \E k \in Timestamps, n \in 1..MaxPlanCount :
       /\ pIn.table[k] + n <= MaxPlanCount
       /\ SumTo(pIn.table, Len(pIn.table)) + n <= MaxPlanCount * MaxTime
       /\ pIn' = [pIn EXCEPT !.table[k] = @ + n]
  /\ UNCHANGED <<pOut, syncVars, apiVars, rateVars, bulkVars, mapVars>>

PlanNext == PlanCall \/ PlanInsert

PlanSpec == PlanInit /\ [][PlanNext]_vars

(* -------------- the rate limiter of sync_batch (ratelimit) ------------- *)
\* the number of actions of a sync_batch call: a batch of sync_table
RateBatches == (1..MaxRateBatch) \cup {DefaultMaxBatch}

RateInit ==
  /\ cfg = <<1, 1>>
  /\ catalog = Tables
  /\ SyncStart
  /\ PlanIdle
  /\ BulkIdle
  /\ MapIdle
  /\ ApiIdle
  /\ rlClock = 0
  /\ rlLastReset = 0
  /\ rlNumCalls = 0
  /\ rlDocs = 0
  /\ rlBatch \in RateBatches

\* period - (clock() - last_reset)
PeriodRemaining == RatePeriod - (rlClock - rlLastReset)

\* num_calls as the limiter sees it on entry: 0 when the period has elapsed
NumCallsOnEntry == IF PeriodRemaining <= 0 THEN 0 ELSE rlNumCalls

\* sync_batch(actions) is called and @limits lets it through: the period is
\* reset if it has elapsed, the call is counted (the call, whatever the
\* number of actions it carries) and bulk submits the actions
SyncBatchAdmitted ==
  /\ NumCallsOnEntry + 1 <= RateCalls
  /\ rlNumCalls' = NumCallsOnEntry + 1
  /\ rlLastReset' = (IF PeriodRemaining <= 0 THEN rlClock ELSE rlLastReset)
  /\ rlDocs' = (IF PeriodRemaining <= 0 THEN 0 ELSE rlDocs) + rlBatch
  /\ UNCHANGED <<rlClock, rlBatch, syncVars, apiVars, planVars, bulkVars,
                 mapVars>>

\* sync_batch(actions) is called when the period's calls are used up:
\* @limits raises RateLimitException(period_remaining), @sleep_and_retry
\* sleeps that long and calls again; the period is then reset and the call
\* goes through as the first of the new period
SyncBatchDelayed ==
  /\ NumCallsOnEntry + 1 > RateCalls
  /\ rlLastReset + RatePeriod <= MaxRateClock
  /\ rlClock' = rlLastReset + RatePeriod
  /\ rlLastReset' = rlLastReset + RatePeriod
  /\ rlNumCalls' = 1
  /\ rlDocs' = rlBatch
  /\ UNCHANGED <<rlBatch, syncVars, apiVars, planVars, bulkVars, mapVars>>

\* time passes between two calls (observed every half period)
RateTick ==
  /\ rlClock + (RatePeriod \div 2) <= MaxRateClock
  /\ rlClock' = rlClock + (RatePeriod \div 2)
  /\ UNCHANGED <<rlLastReset, rlNumCalls, rlBatch, rlDocs, syncVars,
                 apiVars, planVars, bulkVars, mapVars>>

RateNext == SyncBatchAdmitted \/ SyncBatchDelayed \/ RateTick

RateSpec == RateInit /\ [][RateNext]_vars

(* -------------------- the delivery of a batch (bulk) ------------------- *)
\* table_config['index_name'] of the configured tables
IndexName == [t \in Tables |-> IF t = TableOrder[1] THEN "index_a"
                                                    ELSE "index_b"]

RECURSIVE Str(_)
\* str(n) of a non-negative integer: its decimal digits
Str(n) == IF n < 10 THEN <<n>> ELSE Str(n \div 10) \o <<n % 10>>

DocIdByTimestamp(row) == Str(row.ts)

\* '_id': str(row[table_config['primary_key']])
DocId(row) == Str(row.id)

\* actions = [{'_index': index_name, '_id': ..., '_source': dict(row)}
\*            for row in rows]
Actions(rows, t) ==
  [i \in DOMAIN rows |->
     [index |-> IndexName[t], id |-> DocId(rows[i]), source |-> rows[i]]]

\* the index service executes one action (op_type 'index'): the document
\* of that id in that index is created or replaced
IndexDoc(content, a) ==
  {d \in content : ~(d.index = a.index /\ d.id = a.id)} \cup {a}

RECURSIVE ApplyBulk(_, _)
\* bulk(es_client, actions): the actions are executed in order
ApplyBulk(content, actions) ==
  IF actions = <<>> THEN content
  ELSE ApplyBulk(IndexDoc(content, Head(actions)), Tail(actions))

\* the batches fetchmany can return: rows of distinct primary keys
BulkBatches ==
  UNION {{b \in [1..n -> Row] :
            \A i, j \in 1..n : i < j => b[i].id # b[j].id} :
         n \in 1..MaxSyncBatch}

\* what the index service holds before the delivery: for each primary key
\* no document or the document of an earlier version of the row, in the
\* table's index, and possibly a document of another table's index
BulkContents ==
  {{[index |-> IndexName[TableOrder[1]], id |-> Str(k), source |-> f[k]] :
      k \in {i \in DOMAIN f : f[i] # NoRecord}} \cup other :
     f \in {g \in [1..(MaxRows + 1) -> Row \cup {NoRecord}] :
              \A k \in DOMAIN g : g[k] # NoRecord => g[k].id = k},
     other \in {{}, {[index |-> IndexName[TableOrder[2]], id |-> Str(1),
                      source |-> [id |-> 1, ts |-> 1]]}}}

BulkInit ==
  /\ cfg = <<1, 1>>
  /\ catalog = Tables
  /\ SyncStart
  /\ PlanIdle
  /\ RateIdle
  /\ MapIdle
  /\ ApiIdle
  /\ bRows \in BulkBatches
  /\ bIndex \in BulkContents
  /\ bLog = <<>>

\* the actions of the batch are built and sent: the first delivery, or the
\* delivery of the same rows again (fetched again because their watermark
\* was not stored)
Deliver ==
  /\ Len(bLog) < MaxDeliveries
  /\ LET actions == Actions(bRows, TableOrder[1])
     IN  /\ bIndex' = ApplyBulk(bIndex, actions)
         /\ bLog' = Append(bLog, [before |-> bIndex, sent |-> actions,
                                  after |-> ApplyBulk(bIndex, actions)])
  /\ UNCHANGED <<bRows, syncVars, apiVars, planVars, rateVars, mapVars>>

BulkNext == Deliver

BulkSpec == BulkInit /\ [][BulkNext]_vars

(* ------------------------- create_es_mapping --------------------------- *)
\* pg_to_es_type
PgToEsType ==
  [n \in {"integer", "bigint", "smallint", "decimal", "numeric", "real",
          "double precision", "character varying", "text", "boolean",
          "timestamp without time zone", "timestamp with time zone",
          "date", "jsonb", "json"} |->
     CASE n = "integer" -> "integer"
       [] n = "bigint" -> "long"
       [] n = "smallint" -> "short"
       [] n = "decimal" -> "double"
       [] n = "numeric" -> "double"
       [] n = "real" -> "float"
       [] n = "double precision" -> "double"
       [] n = "character varying" -> "keyword"
       [] n = "text" -> "text"
       [] n = "boolean" -> "boolean"
       [] n = "timestamp without time zone" -> "date"
       [] n = "timestamp with time zone" -> "date"
       [] n = "date" -> "date"
       [] n = "jsonb" -> "object"
       [] n = "json" -> "object"]

\* a data_type string: its letters in lower case, and whether the string
\* has a letter in upper case ("TEXT" is [name |-> "text", upper |-> TRUE])
DataTypes ==
  [name : DOMAIN PgToEsType \cup {"uuid"}, upper : BOOLEAN]

LowerIdentity(dt) == dt

\* data_type.lower()
Lower(dt) == [name |-> dt.name, upper |-> FALSE]

\* pg_to_es_type.get(key, 'keyword'): the keys of the table are lower case
GetEsType(key) ==
  IF ~key.upper /\ key.name \in DOMAIN PgToEsType
    THEN PgToEsType[key.name] ELSE "keyword"

\* create_es_mapping(table_name, schema)
CreateEsMapping(schema) ==
  [properties |->
     [column \in DOMAIN schema |->
        LET es_type == GetEsType(Lower(schema[column]))
        IN  IF es_type = "text"
              THEN [type |-> es_type,
                    fields |-> [keyword |-> [type |-> "keyword",
                                             ignore_above |-> IgnoreAbove]]]
              ELSE [type |-> es_type]]]

\* the schemas get_table_schema can return: a dict from column names to
\* data types (empty for a table without columns)
MapColumns == {"id", "body"}
MapSchemas == UNION {[cols -> DataTypes] : cols \in SUBSET MapColumns}

MapInit ==
  /\ cfg = <<1, 1>>
  /\ catalog = Tables
  /\ SyncStart
  /\ PlanIdle
  /\ RateIdle
  /\ BulkIdle
  /\ mSchema \in MapSchemas
  /\ mOut = <<>>
  /\ ApiIdle

\* create_es_mapping is called on the schema
MapCall ==
  /\ Len(mOut) < MaxMapCalls
  /\ mOut' = Append(mOut, CreateEsMapping(mSchema))
  /\ UNCHANGED <<mSchema, syncVars, apiVars, planVars, rateVars, bulkVars>>

MapNext == MapCall

MapSpec == MapInit /\ [][MapNext]_vars

(* --------------------- the read-side API (api_service) ----------------- *)
ApiFieldNames == {"id", "ts"}

\* an Optional list of field names (Optional[List[str]] of SearchQuery, the
\* comma-separated Optional[str] of scroll_search): None, or a list that
\* may be empty
NoValue == [given |-> FALSE, names |-> <<>>]
ApiFieldLists ==
  {NoValue} \cup
  {[given |-> TRUE, names |-> l] :
     l \in UNION {[1..n -> ApiFieldNames] : n \in 0..MaxApiFields}}

ApiRequests ==
  [endpoint : {"search", "scroll"},
   fields : ApiFieldLists,
   exclude_fields : ApiFieldLists]

\* the truth value of an Optional list or string: None and the empty one
\* are false
Truthy(v) == v.given /\ v.names # <<>>

\* HTTPException(status_code=..., detail=...)
HTTPException(status_code, detail) ==
  [status |-> status_code, detail |-> detail]

\* str(e) of an HTTPException: "<status_code>: <detail>"
StrOfException(e) == <<e.status, ": ", e.detail>>

\* except Exception as e: raise HTTPException(status_code=500,
\* detail=str(e)).  HTTPException is a subclass of Exception, so the clause
\* also takes the HTTPException raised inside the try block.
ExceptException(e) == HTTPException(ServerError, StrOfException(e))

ApiInit ==
  /\ cfg = <<1, 1>>
  /\ catalog = Tables
  /\ SyncStart
  /\ PlanIdle
  /\ RateIdle
  /\ BulkIdle
  /\ MapIdle
  /\ aReq \in ApiRequests
  /\ aResp = NoResponse
  /\ aSearches = 0

\* the body of search and of scroll_search: the validation of the field
\* selection, then the query is built and es_client.search is called, which
\* returns or raises; all of it inside try ... except Exception
HandleRequest ==
  IF Truthy(aReq.fields) /\ Truthy(aReq.exclude_fields)
    THEN /\ aResp' = ExceptException(
                       HTTPException(BadRequest,
                         "Cannot specify both fields and exclude_fields"))
         /\ aSearches' = aSearches
    ELSE /\ aSearches' = aSearches + 1
         /\ \E answered \in BOOLEAN :
              aResp' = IF answered
                         THEN [status |-> StatusOk, detail |-> <<>>]
                         ELSE ExceptException(
                                HTTPException(ServerError, "search failed"))

\* POST /search
Search ==
  /\ aResp = NoResponse
  /\ aReq.endpoint = "search"
  /\ HandleRequest
  /\ UNCHANGED <<aReq, syncVars, planVars, rateVars, bulkVars, mapVars>>

\* GET /search/{index}/scroll
ScrollSearch ==
  /\ aResp = NoResponse
  /\ aReq.endpoint = "scroll"
  /\ HandleRequest
  /\ UNCHANGED <<aReq, syncVars, planVars, rateVars, bulkVars, mapVars>>

ApiNext == Search \/ ScrollSearch

ApiSpec == ApiInit /\ [][ApiNext]_vars

(* =============================== claims ================================ *)

(* C1: for every table, once a cycle has completed (main is in its          *)
(* sync_interval sleep), the last_sync_time stored in sync_status equals    *)
(* the maximum timestamp among all rows fetched for that table so far.      *)
C1_WatermarkIsMaxFetched ==
  pc = "sleep" =>
    \A t \in Tables :
      syncStatus[t] # NoRecord => syncStatus[t][1] = fetchedMax[t]

(* C2: when the scan of a table is about to be opened, a row of the table   *)
(* whose timestamp is strictly greater than that of every row already sent  *)
(* in a bulk write (so a row not written yet) passes the scan's filter: its *)
(* timestamp is greater than the stored watermark.                          *)
C2_NewerRowsNotExcluded ==
  pc = "open" =>
    \A r \in source[CurTable] :
      r.ts > writtenMax[CurTable] => r.ts > Coalesce(syncStatus[CurTable])

(* C3: when a cycle has ended (main sleeps) and sync_table raised for some  *)
(* table in it, sync_table was invoked in that cycle for every configured   *)
(* table.                                                                   *)
C3_ErrorIsolation ==
  (pc \in {"sleep", "cooldown"} /\ failedTables # {}) => invoked = Tables

(* C4: after a bulk call that failed as a whole, no step changes the        *)
(* table's stored last_sync_time: the watermark is not advanced.            *)
C4_CallFailureKeepsWatermark ==
  [][bulkOutcome = "call_failed" =>
       syncStatus'[CurTable] = syncStatus[CurTable]]_vars

(* C5: when the index rejects some documents of a batch, sync_batch does    *)
(* not raise and returns the accepted documents as the success count and    *)
(* the rejected ones as failed; sync_table then performs the watermark      *)
(* upsert for that batch and goes back to fetchmany (it leaves the upsert   *)
(* step otherwise only if the upsert itself raises or main is interrupted). *)
C5_PartialFailureGoesOn ==
  [][/\ (pc = "write" /\ bulkOutcome' = "rejected") =>
          /\ pc' = "advance"
          /\ lastError' = "none"
          /\ lastResult'.failed # {}
          /\ lastResult'.failed \subseteq CurBatch
          /\ lastResult'.success =
               Cardinality(CurBatch \ lastResult'.failed)
     /\ (pc = "advance" /\ bulkOutcome = "rejected" /\ pc' # "advance") =>
          \/ pc' = "fetch" /\ syncStatus'[CurTable] \in
                                 {<<k>> : k \in ClockReadings}
          \/ pc' = "cooldown" /\ lastError' = "upsert"
          \/ lastError' = "interrupt"]_vars

\* a partially rejected batch was watermarked and the loop is back at fetch
C5_Witness ==
  /\ pc = "fetch"
  /\ bulkOutcome = "rejected"
  /\ lastResult.success > 0
  /\ lastResult.failed # {}
  /\ syncStatus[CurTable] # NoRecord

(* C6: every result of calculate_batch_size lies between min_batch_size and *)
(* max_batch_size.                                                          *)
C6_PlanWithinBounds ==
  \A i \in DOMAIN pOut : pIn.min <= pOut[i].size /\ pOut[i].size <= pIn.max

(* C7: calculate_batch_size is monotonically non-decreasing in remaining    *)
(* over the whole range of remaining.                                       *)
C7_PlanMonotone ==
  \A i, j \in DOMAIN pOut :
    pOut[i].remaining <= pOut[j].remaining => pOut[i].size <= pOut[j].size

(* C7 (amended): calculate_batch_size is monotonically non-decreasing in    *)
(* remaining on each side of the ceiling: for r1 <= r2 with both at most    *)
(* max_batch_size, or both above it, plan(r1) <= plan(r2).                  *)
C7_PlanMonotoneBySide ==
  \A i, j \in DOMAIN pOut :
    (/\ pOut[i].remaining <= pOut[j].remaining
     /\ (pOut[j].remaining <= pIn.max \/ pOut[i].remaining > pIn.max))
    => pOut[i].size <= pOut[j].size

\* two calls above the ceiling, the larger backlog getting the larger batch
C7_Witness ==
  /\ Len(pOut) = 2
  /\ pOut[1].remaining > pIn.max
  /\ pOut[1].remaining < pOut[2].remaining
  /\ pOut[1].size < pOut[2].size

(* C8: remaining is the number of rows whose timestamp is strictly greater  *)
(* than the stored watermark (the epoch without a record), and the result   *)
(* is min for remaining <= min, remaining for min < remaining <= max, and   *)
(* min(max, floor(min * log10(remaining))) above max, where                 *)
(* f = floor(min * log10(remaining)) is the f with                          *)
(* 10^f <= remaining^min < 10^(f+1); 1,000,000 rows under min 100 and max   *)
(* 5000 give 600.                                                           *)
C8_PlanPolicy ==
  \A i \in DOMAIN pOut :
    LET e == pOut[i]
        r == e.remaining
        w == IF pIn.wm = NoRecord THEN 0 ELSE pIn.wm[1]
        n == Len(e.table)
    IN  /\ r = SumTo(e.table, n) - SumTo(e.table, Min2(w, n))
        /\ r <= pIn.min => e.size = pIn.min
        /\ (pIn.min < r /\ r <= pIn.max) => e.size = r
        /\ (r > pIn.max /\ r = 1000000 /\ pIn.min = 100) =>
             e.size = Min2(pIn.max, 600)
        /\ (r > pIn.max /\ r # 1000000) =>
             \E f \in 0..9 :
               /\ Pow(10, f) <= Pow(r, pIn.min)
               /\ Pow(r, pIn.min) < Pow(10, f + 1)
               /\ e.size = Min2(pIn.max, f)

\* the scenario of 1,000,000 unsynced rows was planned, and gave 600
C8_Witness ==
  \E i \in DOMAIN pOut :
    /\ pOut[i].remaining = 1000000
    /\ pIn.min = 100 /\ pIn.max = 5000
    /\ pOut[i].size = 600

(* C9: the scan cursor of a table is opened only when the planner counted a *)
(* positive backlog: with remaining = 0 sync_table opens no cursor.         *)
C9_NoScanWithoutBacklog == cursorOpen => remaining > 0

RECURSIVE Flatten(_)
\* the rows of a sequence of batches, in the order they were fetched
Flatten(bs) == IF bs = <<>> THEN <<>> ELSE bs[1] \o Flatten(Tail(bs))

(* C10: within one sync_table call the scan delivers rows in ascending      *)
(* timestamp order: the rows fetched so far, batch after batch, followed by *)
(* the rows the cursor has yet to deliver, never descend in                 *)
(* timestamp_column (so no row of a batch is later than a row of any        *)
(* following batch), and every fetched row has a timestamp strictly greater *)
(* than the watermark the scan read when it was opened.                     *)
C10_BatchesAscend ==
  LET scan == Flatten(batches) \o cursorRows
  IN  /\ \A i, j \in DOMAIN scan : i < j => scan[i].ts <= scan[j].ts
      /\ \A i \in DOMAIN batches :
           \A r \in Range(batches[i]) : r.ts > scanWm

\* a batch was fetched while the scan still holds a row of a later
\* timestamp, the row a following batch starts with
C10_Witness ==
  /\ Len(batches) = 1
  /\ cursorRows # <<>>
  /\ \A r \in CurBatch : scanWm < r.ts /\ r.ts < cursorRows[1].ts

(* C11: the documents submitted to the index through sync_batch within one  *)
(* period of the limiter (60 seconds from last_reset) never number more     *)
(* than 1000.                                                               *)
C11_DocsPerPeriodBounded == rlDocs <= RateCalls

(* C12: the stored watermark of a table never decreases: no step replaces   *)
(* last_sync_time by a smaller value, a table without a sync_status record  *)
(* counting as the epoch.                                                   *)
C12_WatermarkMonotone ==
  [][\A t \in Tables :
       Coalesce(syncStatus[t]) <= Coalesce(syncStatus'[t])]_vars

(* C13: a connection is out of the pool only while sync_table holds its     *)
(* scan, and then exactly one: after get_table_schema or                    *)
(* calculate_batch_size (before the index step, before the scan is opened)  *)
(* and after sync_table returned or raised at any step (next table, sleep,  *)
(* cooldown, main stopped) no connection is borrowed.                       *)
C13_BorrowsReleased ==
  /\ borrowed = (IF cursorOpen THEN 1 ELSE 0)
  /\ pc \in {"setup", "schema", "index", "plan", "open", "sleep",
             "cooldown", "stopped"} => borrowed = 0

\* sync_table raised at the watermark upsert, holding the scan's
\* connection, and the connection is back in the pool
C13_Witness ==
  /\ pc = "cooldown"
  /\ lastError = "upsert"
  /\ borrowed = 0

(* C14: every exception of a cycle (setup failing after its attempts, an    *)
(* error leaving sync_table) puts main into its 5-second cooldown, from the *)
(* cooldown a new cycle is always started unless main is interrupted, and   *)
(* main stops only on an interrupt.                                         *)
C14_LoopSurvivesErrors ==
  /\ [][(lastError' # lastError /\ lastError' \notin {"none", "interrupt"})
          => pc' = "cooldown"]_vars
  /\ [][(pc' = "stopped" /\ pc # "stopped") => lastError' = "interrupt"]_vars
  /\ (pc = "cooldown") ~> (pc = "setup" \/ lastError = "interrupt")

\* setup failed after its attempts in a cycle that follows a cycle in which
\* a watermark was written and an error ended sync_table
C14_Witness ==
  /\ pc = "cooldown"
  /\ lastError = "setup"
  /\ \E t \in Tables : syncStatus[t] # NoRecord

(* C15: an interrupt, at whatever step it arrives, stops main: the stored   *)
(* watermarks are left as they are, no connection stays borrowed and the    *)
(* connections are closed; once main has stopped no batch is written, no    *)
(* watermark is stored and no cycle starts; and a watermark is stored only  *)
(* by the upsert step, which follows a bulk write that returned.            *)
C15_InterruptStopsCleanly ==
  /\ [][(lastError' = "interrupt" /\ lastError # "interrupt") =>
          /\ pc' = "stopped"
          /\ syncStatus' = syncStatus
          /\ borrowed' = 0
          /\ ~connsOpen']_vars
  /\ [][pc = "stopped" =>
          UNCHANGED <<pc, syncStatus, writtenMax, fetchedMax, indexExists,
                      borrowed, connsOpen>>]_vars
  /\ [][syncStatus' # syncStatus =>
          pc = "advance" /\ bulkOutcome \in {"ok", "rejected", "call_failed"}]_vars

\* main was interrupted after a batch had been sent and before its
\* watermark was stored
C15_Witness ==
  /\ pc = "stopped"
  /\ \E t \in Tables : writtenMax[t] > Epoch /\ syncStatus[t] = NoRecord

(* C16: for a table that does not exist in the source database,             *)
(* get_table_schema does not return (sync_table never gets to its index     *)
(* step or beyond), and no index is created for it.                         *)
C16_MissingTableIsSchemaError ==
  /\ pc \in {"index", "plan", "open"} => CurTable \in catalog
  /\ indexExists \subseteq catalog

(* C17: each delivery sends exactly one action per row of the batch, to the *)
(* table's configured index and with the stringified primary key as         *)
(* document id; after it the index holds, for each row, exactly one         *)
(* document of that id, the row itself, and the documents of other ids or   *)
(* other indices are as before; and delivering the same batch again leaves  *)
(* the index content identical to the content after the first delivery.     *)
C17_DeliveryIdempotent ==
  LET idx == IndexName[TableOrder[1]]
      ids == {Str(bRows[k].id) : k \in DOMAIN bRows}
  IN  /\ \A i \in DOMAIN bLog :
           /\ Len(bLog[i].sent) = Len(bRows)
           /\ \A k \in DOMAIN bRows :
                /\ bLog[i].sent[k].index = idx
                /\ bLog[i].sent[k].id = Str(bRows[k].id)
                /\ bLog[i].sent[k].source = bRows[k]
                /\ {d \in bLog[i].after :
                      d.index = idx /\ d.id = Str(bRows[k].id)}
                     = {[index |-> idx, id |-> Str(bRows[k].id),
                         source |-> bRows[k]]}
           /\ {d \in bLog[i].after : d.index # idx \/ d.id \notin ids}
                = {d \in bLog[i].before : d.index # idx \/ d.id \notin ids}
      /\ \A i, j \in DOMAIN bLog : bLog[i].after = bLog[j].after

\* a batch of two rows was delivered twice to an index that held an older
\* version of one of them: the first delivery changed the content, the
\* second did not
C17_Witness ==
  /\ Len(bLog) = 2
  /\ Len(bRows) = 2
  /\ bLog[1].before # bLog[1].after
  /\ bLog[2].before = bLog[2].after
  /\ \E d \in bLog[1].before, k \in DOMAIN bRows :
       d.id = Str(bRows[k].id) /\ d.source # bRows[k]

(* C18: the result of create_es_mapping has exactly the columns of the      *)
(* schema; the type of a column is the translation-table entry of its data  *)
(* type, whatever the case of its letters, or 'keyword' if the type is not  *)
(* in the table; a column has a 'keyword' sub-field with ignore_above 256   *)
(* exactly if its translated type is 'text'; and calling it again on the    *)
(* same schema gives the same result.                                       *)
C18_MappingFromSchema ==
  \A i \in DOMAIN mOut :
    LET props == mOut[i].properties
    IN  /\ DOMAIN mOut[i] = {"properties"}
        /\ DOMAIN props = DOMAIN mSchema
        /\ \A c \in DOMAIN mSchema :
             LET want == IF mSchema[c].name \in DOMAIN PgToEsType
                           THEN PgToEsType[mSchema[c].name] ELSE "keyword"
             IN  /\ props[c].type = want
                 /\ ("fields" \in DOMAIN props[c]) <=> (want = "text")
                 /\ want = "text" =>
                      props[c].fields =
                        [keyword |-> [type |-> "keyword", ignore_above |-> 256]]
                 /\ DOMAIN props[c] \subseteq {"type", "fields"}
        /\ mOut[i] = mOut[1]

\* a schema with a TEXT column (in upper case) and a column of a type that
\* is not in the table was mapped twice
C18_Witness ==
  /\ Len(mOut) = 2
  /\ \E c, u \in DOMAIN mSchema :
       /\ mSchema[c] = [name |-> "text", upper |-> TRUE]
       /\ mOut[2].properties[c].type = "text"
       /\ mSchema[u].name = "uuid"
       /\ mOut[2].properties[u] = [type |-> "keyword"]

(* C19: the scan stays usable across the watermark commits: whenever        *)
(* sync_table is about to fetch, its named cursor is still valid, so that   *)
(* the fetch returns the next rows or no row.                               *)
C19_ScanSurvivesCommits == pc = "fetch" => cursorValid

(* C20: sync_table moves through its steps in order: the index step follows *)
(* introspection, planning follows the index step (the index then exists),  *)
(* the scan follows planning, a bulk write follows a fetch that returned    *)
(* rows, for an index that exists, the watermark upsert follows a bulk      *)
(* write that returned, and a fetch follows the opening of the scan or the  *)
(* commit of the previous batch's upsert; the watermark is stored in no     *)
(* other step and a batch is fetched in no other step.                      *)
C20_StepOrder ==
  [][LET moves(to) == pc' = to /\ pc # to
     IN  /\ moves("index") => pc = "schema"
         /\ moves("plan") => pc = "index" /\ CurTable \in indexExists'
         /\ moves("open") => pc = "plan"
         /\ moves("write") =>
              /\ pc = "fetch"
              /\ CurTable \in indexExists
              /\ Len(batches') = Len(batches) + 1
         /\ moves("advance") =>
              /\ pc = "write"
              /\ lastResult'.success + Cardinality(lastResult'.failed)
                   = Cardinality(CurBatch)
         /\ moves("fetch") =>
              \/ pc = "open"
              \/ pc = "advance" /\ syncStatus'[CurTable] # NoRecord
         /\ syncStatus' # syncStatus => pc = "advance" /\ pc' = "fetch"
         /\ (batches' # batches /\ batches' # <<>>) => pc = "fetch"]_vars

\* one batch went through fetch, bulk write and watermark upsert, and
\* sync_table is at the next fetch
C20_Witness ==
  /\ pc = "fetch"
  /\ Len(batches) = 1
  /\ bulkOutcome = "ok"
  /\ lastResult.success = Len(batches[1])
  /\ syncStatus[CurTable] # NoRecord

(* C21: while sync_table is before its first fetch (introspection, index    *)
(* step, planning, opening of the scan) no step changes a sync_status       *)
(* record, of its table or of another; so a call that fails in one of these *)
(* steps leaves sync_status as it found it.                                 *)
C21_EarlyFailureKeepsStatus ==
  [][/\ pc \in {"schema", "index", "plan", "open"} =>
          syncStatus' = syncStatus
     /\ (lastError' # lastError
           /\ lastError' \in {"schema", "index", "plan", "open"}) =>
          /\ pc \in {"schema", "index", "plan", "open"}
          /\ syncStatus' = syncStatus]_vars

\* sync_table of the second table failed when opening its scan, in a cycle
\* that found a watermark stored for the first table
C21_Witness ==
  /\ pc = "cooldown"
  /\ lastError = "open"
  /\ cur = 2
  /\ syncStatus[TableOrder[1]] # NoRecord

(* C22: a request to search or scroll_search that gives both fields and     *)
(* exclude_fields is answered with status 400, and no search is sent to the *)
(* index service for it.                                                    *)
C22_BothListsRejected ==
  (/\ aResp.status # 0
   /\ aReq.fields.given /\ Len(aReq.fields.names) > 0
   /\ aReq.exclude_fields.given /\ Len(aReq.exclude_fields.names) > 0) =>
    (aResp.status = 400 /\ aSearches = 0)

====
